---- MODULE Spec2Model ----
(***************************************************************************)
(* Work-tracker backend (src/app.py): the task rows of Sheet2 and the      *)
(* handlers create_task, update_task, get_tasks and get_active_tasks.      *)
(*                                                                         *)
(* A Python str is a sequence of one-character strings, so that strip,     *)
(* replace, slicing, upper, strftime, strptime and str(int) are computed   *)
(* character by character.  A date is a record [y, m, d]; an optional      *)
(* value (None or a value) is a sequence of length 0 or 1.                 *)
(***************************************************************************)
EXTENDS Integers, Sequences, FiniteSets, TLC

(***************************************************************************)
(* Bounds of the model.                                                    *)
(***************************************************************************)
MaxRequests == 2
MaxTicks == 1
MaxViewRows == 2

(***************************************************************************)
(* String literals of the program.                                         *)
(***************************************************************************)
S_Date == <<"D", "a", "t", "e">>
S_Tastype == <<"T", "a", "s", "t", "y", "p", "e">>
S_BusinessID == <<"B", "u", "s", "i", "n", "e", "s", "s", " ", "I", "D">>
S_TAT == <<"T", "A", "T">>
S_TaskDescribtion == <<"T", "a", "s", "k", " ", "D", "e", "s", "c", "r", "i", "b", "t", "i", "o", "n">>
S_EmployeeName == <<"E", "m", "p", "l", "o", "y", "e", "e", " ", "N", "a", "m", "e">>
S_Collegaue == <<"C", "o", "l", "l", "e", "g", "a", "u", "e">>
S_Status == <<"S", "t", "a", "t", "u", "s">>
S_ChnageOnStatus == <<"C", "h", "n", "a", "g", "e", "O", "n", "S", "t", "a", "t", "u", "s">>
S_TotalDaysRequired == <<"T", "o", "t", "a", "l", " ", "D", "a", "y", "s", "R", "e", "q", "u", "i", "r", "e", "d">>
S_TotalDaysTaken == <<"T", "o", "t", "a", "l", " ", "D", "a", "y", "s", " ", "t", "a", "k", "e", "n">>
S_TaskDeliveryStatus == <<"T", "a", "s", "k", " ", "D", "e", "l", "i", "v", "e", "r", "y", " ", "S", "t", "a", "t", "u", "s">>
S_ID == <<"I", "D">>
NONE == <<"N", "O", "N", "E">>
Pending == <<"P", "e", "n", "d", "i", "n", "g">>
Completed == <<"C", "o", "m", "p", "l", "e", "t", "e", "d">>
Cancelled == <<"C", "a", "n", "c", "e", "l", "l", "e", "d">>
OnTime == <<"O", "n", " ", "T", "i", "m", "e">>
LateSubmission == <<"L", "a", "t", "e", " ", "S", "u", "b", "m", "i", "s", "s", "i", "o", "n">>
LateDelivery == <<"L", "a", "t", "e", " ", "D", "e", "l", "i", "v", "e", "r", "y">>
EmptyStr == <<>>

\* COL: the 0-indexed column of each field of a Sheet2 row.
COL ==
    ("Date" :> 0) @@ ("Tastype" :> 1) @@ ("Business ID" :> 2) @@ ("TAT" :> 3)
    @@ ("Task Describtion" :> 4) @@ ("Employee Name" :> 5) @@ ("Collegaue" :> 6)
    @@ ("Status" :> 7) @@ ("ChnageOnStatus" :> 8) @@ ("Total DaysRequired" :> 9)
    @@ ("Total Days taken" :> 10) @@ ("Task Delivery Status" :> 11) @@ ("ID" :> 12)

NUM_COLS == 13

\* The header row ensure_sheet2_with_header writes.
header ==
    << S_Date, S_Tastype, S_BusinessID, S_TAT, S_TaskDescribtion, S_EmployeeName,
       S_Collegaue, S_Status, S_ChnageOnStatus, S_TotalDaysRequired,
       S_TotalDaysTaken, S_TaskDeliveryStatus, S_ID >>

(***************************************************************************)
(* str methods.                                                            *)
(***************************************************************************)
Whitespace == {" ", "\t", "\n", "\r"}

RECURSIVE lstrip(_)
lstrip(s) ==
    IF s # <<>> /\ Head(s) \in Whitespace THEN lstrip(Tail(s)) ELSE s

RECURSIVE rstrip(_)
rstrip(s) ==
    IF s # <<>> /\ s[Len(s)] \in Whitespace
    THEN rstrip(SubSeq(s, 1, Len(s) - 1))
    ELSE s

\* str.strip()
strip(s) == rstrip(lstrip(s))

\* str.replace(" ", "")
remove_spaces(s) == SelectSeq(s, LAMBDA c : c # " ")

\* s[:n]
prefix(s, n) == SubSeq(s, 1, IF Len(s) < n THEN Len(s) ELSE n)

LowerLetters ==
    << "a", "b", "c", "d", "e", "f", "g", "h", "i", "j", "k", "l", "m",
       "n", "o", "p", "q", "r", "s", "t", "u", "v", "w", "x", "y", "z" >>

UpperLetters ==
    << "A", "B", "C", "D", "E", "F", "G", "H", "I", "J", "K", "L", "M",
       "N", "O", "P", "Q", "R", "S", "T", "U", "V", "W", "X", "Y", "Z" >>

upper_char(c) ==
    IF \E i \in 1..26 : LowerLetters[i] = c
    THEN UpperLetters[CHOOSE i \in 1..26 : LowerLetters[i] = c]
    ELSE c

\* str.upper()
upper(s) == [i \in 1..Len(s) |-> upper_char(s[i])]

Digits == << "0", "1", "2", "3", "4", "5", "6", "7", "8", "9" >>

is_digit(c) == \E i \in 1..10 : Digits[i] = c

digit_value(c) == (CHOOSE i \in 1..10 : Digits[i] = c) - 1

all_digits(s) == \A i \in 1..Len(s) : is_digit(s[i])

\* int(s) of a string of digits
RECURSIVE digits_to_nat(_)
digits_to_nat(s) ==
    IF s = <<>> THEN 0
    ELSE 10 * digits_to_nat(SubSeq(s, 1, Len(s) - 1)) + digit_value(s[Len(s)])

RECURSIVE nat_to_str(_)
nat_to_str(n) ==
    IF n < 10 THEN << Digits[n + 1] >>
    ELSE nat_to_str(n \div 10) \o << Digits[(n % 10) + 1] >>

\* str(n) of an int
int_to_str(n) == IF n < 0 THEN << "-" >> \o nat_to_str(0 - n) ELSE nat_to_str(n)

\* "%0<width>d" % n, as strftime pads a field
RECURSIVE zero_pad(_, _)
zero_pad(s, width) == IF Len(s) < width THEN zero_pad(<< "0" >> \o s, width) ELSE s

\* s.split(sep) for a one-character separator
RECURSIVE split(_, _)
split(s, sep) ==
    IF \E i \in 1..Len(s) : s[i] = sep
    THEN LET k == CHOOSE i \in 1..Len(s) :
                      s[i] = sep /\ \A j \in 1..(i - 1) : s[j] # sep
         IN  << SubSeq(s, 1, k - 1) >> \o split(SubSeq(s, k + 1, Len(s)), sep)
    ELSE << s >>

(***************************************************************************)
(* datetime.date.                                                          *)
(***************************************************************************)
is_leap(y) == y % 4 = 0 /\ (y % 100 # 0 \/ y % 400 = 0)

days_in_month(y, m) ==
    IF m = 2 THEN (IF is_leap(y) THEN 29 ELSE 28)
    ELSE IF m \in {4, 6, 9, 11} THEN 30 ELSE 31

RECURSIVE days_before_month(_, _)
days_before_month(y, m) ==
    IF m = 1 THEN 0 ELSE days_before_month(y, m - 1) + days_in_month(y, m - 1)

days_before_year(y) ==
    (y - 1) * 365 + ((y - 1) \div 4) - ((y - 1) \div 100) + ((y - 1) \div 400)

\* date.toordinal(): (a - b).days is toordinal(a) - toordinal(b)
toordinal(dt) == days_before_year(dt.y) + days_before_month(dt.y, dt.m) + dt.d

days_between(a, b) == toordinal(a) - toordinal(b)

\* the day after dt
next_day(dt) ==
    IF dt.d < days_in_month(dt.y, dt.m) THEN [dt EXCEPT !.d = dt.d + 1]
    ELSE IF dt.m < 12 THEN [y |-> dt.y, m |-> dt.m + 1, d |-> 1]
    ELSE [y |-> dt.y + 1, m |-> 1, d |-> 1]

\* dt.strftime("%Y-%m-%d")
strftime_iso(dt) ==
    zero_pad(nat_to_str(dt.y), 4) \o << "-" >> \o zero_pad(nat_to_str(dt.m), 2)
    \o << "-" >> \o zero_pad(nat_to_str(dt.d), 2)

\* dt.strftime("%Y%m%d")
strftime_compact(dt) ==
    zero_pad(nat_to_str(dt.y), 4) \o zero_pad(nat_to_str(dt.m), 2)
    \o zero_pad(nat_to_str(dt.d), 2)

\* The text one strptime directive accepts: %Y is \d\d\d\d, %m is
\* 1[0-2]|0[1-9]|[1-9], %d is 3[01]|[12]\d|0[1-9]|[1-9]|" "[1-9].
directive_matches(dir, f) ==
    CASE dir = "Y" -> Len(f) = 4 /\ all_digits(f)
      [] dir = "m" -> Len(f) \in {1, 2} /\ all_digits(f) /\ digits_to_nat(f) \in 1..12
      [] dir = "d" ->
            \/ Len(f) \in {1, 2} /\ all_digits(f) /\ digits_to_nat(f) \in 1..31
            \/ Len(f) = 2 /\ f[1] = " " /\ is_digit(f[2]) /\ f[2] # "0"

directive_value(f) == digits_to_nat(remove_spaces(f))

\* datetime.strptime(s, fmt).date() for a format of three directives joined by
\* one separator; <<>> stands for the ValueError.
strptime(s, fmt) ==
    LET fs == split(s, fmt.sep) IN
    IF Len(fs) = 3 /\ \A i \in 1..3 : directive_matches(fmt.order[i], fs[i])
    THEN LET val(dir) == directive_value(fs[CHOOSE i \in 1..3 : fmt.order[i] = dir])
             dt == [y |-> val("Y"), m |-> val("m"), d |-> val("d")]
         IN  IF dt.y >= 1 /\ dt.d <= days_in_month(dt.y, dt.m) THEN << dt >> ELSE <<>>
    ELSE <<>>

\* ("%Y-%m-%d", "%d/%m/%Y", "%m/%d/%Y", "%d-%m-%Y")
DateFormats ==
    << [sep |-> "-", order |-> << "Y", "m", "d" >>],
       [sep |-> "/", order |-> << "d", "m", "Y" >>],
       [sep |-> "/", order |-> << "m", "d", "Y" >>],
       [sep |-> "-", order |-> << "d", "m", "Y" >>] >>

RECURSIVE parse_date_from(_, _)
parse_date_from(date_str, k) ==
    IF k > Len(DateFormats) THEN <<>>
    ELSE LET r == strptime(strip(date_str), DateFormats[k])
         IN  IF r # <<>> THEN r ELSE parse_date_from(date_str, k + 1)

\* parse_date: the first format that parses, or None (<<>>)
parse_date(date_str) == parse_date_from(date_str, 1)

(***************************************************************************)
(* Request bodies.  A JSON member is absent, null or a string.             *)
(***************************************************************************)
Absent == [k |-> "absent", v |-> <<>>]
Null == [k |-> "null", v |-> <<>>]
Str(s) == [k |-> "str", v |-> s]

\* data.get(key, default)
data_get(data, key, default) == IF data[key].k = "absent" THEN default ELSE data[key]

\* safe_get(row, idx): the cell at 0-indexed idx, "" past the end of the row
safe_get(row, idx) == IF idx + 1 <= Len(row) THEN row[idx + 1] ELSE EmptyStr

(***************************************************************************)
(* The spreadsheet service.  sheet holds the rows of Sheet2 as values.get  *)
(* returns them: row i of the sequence is sheet row i.                     *)
(***************************************************************************)
\* values().get(range = "Sheet2!A1:M1").get("values") is empty
header_missing(rows) == rows = <<>> \/ \A j \in 1..Len(rows[1]) : rows[1][j] = EmptyStr

\* values().update(range = "Sheet2!A<n>:M<n>", body = {"values": [row]})
\* A variant of values_update that adds the header offset to a sheet row
\* number that already counts it.
values_update_shifted(rows, n, row) ==
    LET m == n + 1
    IN  IF m <= Len(rows) THEN [rows EXCEPT ![m] = row]
        ELSE rows \o [j \in 1..(m - Len(rows)) |-> IF j = m - Len(rows) THEN row ELSE <<>>]

values_update(rows, n, row) ==
    IF n <= Len(rows) THEN [rows EXCEPT ![n] = row]
    ELSE rows \o [j \in 1..(n - Len(rows)) |-> IF j = n - Len(rows) THEN row ELSE <<>>]

\* values().append(range = "Sheet2!A:M", insertDataOption = "INSERT_ROWS")
values_append(rows, row) == Append(rows, row)

\* ensure_sheet2_with_header: the tab and the header row exist afterwards.
\* calls counts the requests sent to the spreadsheet service.
ensure_sheet2_with_header(exists, rows) ==
    LET with_header == IF header_missing(rows) THEN values_update(rows, 1, header) ELSE rows
    IN  [ exists |-> TRUE,
          sheet  |-> with_header,
          calls  |-> 2 + (IF exists THEN 0 ELSE 1) + (IF header_missing(rows) THEN 1 ELSE 0) ]

(***************************************************************************)
(* Derived fields.                                                         *)
(***************************************************************************)
\* random.randint(RAND_LO, RAND_HI)
RAND_LO == 10000
RAND_HI == 99999

\* generate_task_id: CLIENTCODE_RANDOMNUM-WorkerName-YYYYMMDD
generate_task_id(client_name, worker_name, td, random_num) ==
    LET client_code  == upper(prefix(remove_spaces(client_name), 5))
        date_str     == strftime_compact(td)
        worker_clean == remove_spaces(strip(worker_name))
    IN  client_code \o << "_" >> \o nat_to_str(random_num) \o << "-" >>
        \o worker_clean \o << "-" >> \o date_str

\* get_delivery_status
\* A variant of get_delivery_status whose first threshold is strict.
get_delivery_status_strict(tat_date, completion_date) ==
    LET days_late == days_between(completion_date, tat_date)
    IN  IF days_late < 0 THEN OnTime
        ELSE IF days_late = 1 THEN LateSubmission
        ELSE LateDelivery

get_delivery_status(tat_date, completion_date) ==
    LET days_late == days_between(completion_date, tat_date)
    IN  IF days_late <= 0 THEN OnTime
        ELSE IF days_late = 1 THEN LateSubmission
        ELSE LateDelivery

(***************************************************************************)
(* POST /api/tasks/create                                                  *)
(***************************************************************************)
required == << "taskType", "clientId", "tat", "taskDescription", "workerName" >>

\* The validation loop of create_task from required[i] on: "ok", the first
\* field that is missing or blank, or "raise" (None has no strip).
RECURSIVE validate_required(_, _)
validate_required(data, i) ==
    IF i > Len(required) THEN [k |-> "ok", field |-> ""]
    ELSE LET v == data_get(data, required[i], Str(EmptyStr))
         IN  IF v.k = "null" THEN [k |-> "raise", field |-> ""]
             ELSE IF strip(v.v) = EmptyStr THEN [k |-> "missing", field |-> required[i]]
             ELSE validate_required(data, i + 1)

\* A variant of create_row that stamps the status-changed date at creation.
create_row_stamped(data, td, colleague, task_id) ==
    LET tat_str  == strip(data["tat"].v)
        tat_date == parse_date(tat_str)
    IN  << strftime_iso(td),
           strip(data["taskType"].v),
           strip(data["clientId"].v),
           tat_str,
           strip(data["taskDescription"].v),
           strip(data["workerName"].v),
           colleague,
           Pending,
           strftime_iso(td),
           IF tat_date # <<>> THEN int_to_str(days_between(tat_date[1], td)) ELSE EmptyStr,
           EmptyStr,
           EmptyStr,
           task_id >>

\* The row create_task builds, in Sheet2 column order.
create_row(data, td, colleague, task_id) ==
    LET tat_str  == strip(data["tat"].v)
        tat_date == parse_date(tat_str)
    IN  << strftime_iso(td),
           strip(data["taskType"].v),
           strip(data["clientId"].v),
           tat_str,
           strip(data["taskDescription"].v),
           strip(data["workerName"].v),
           colleague,
           Pending,
           EmptyStr,
           IF tat_date # <<>> THEN int_to_str(days_between(tat_date[1], td)) ELSE EmptyStr,
           EmptyStr,
           EmptyStr,
           task_id >>

\* A variant of create_task that calls ensure_sheet2_with_header before it
\* validates the request.
create_task_ensures_first(data, td, random_num, exists, rows) ==
    LET ens == ensure_sheet2_with_header(exists, rows)
        rejected(code, field) ==
            [ code |-> code, field |-> field, taskId |-> EmptyStr, calls |-> ens.calls,
              exists |-> ens.exists, sheet |-> ens.sheet ]
        chk == validate_required(data, 1)
        col == data_get(data, "colleague", Str(NONE))
    IN  IF chk.k = "raise" THEN rejected(500, "")
        ELSE IF chk.k = "missing" THEN rejected(400, chk.field)
        ELSE IF col.k = "null" THEN rejected(500, "")
        ELSE LET client_id   == strip(data["clientId"].v)
                 worker_name == strip(data["workerName"].v)
                 colleague   == IF strip(col.v) # EmptyStr THEN strip(col.v) ELSE NONE
                 task_id     == generate_task_id(client_id, worker_name, td, random_num)
                 row         == create_row(data, td, colleague, task_id)
             IN  [ code |-> 200, field |-> "", taskId |-> task_id, calls |-> ens.calls + 1,
                   exists |-> ens.exists, sheet |-> values_append(ens.sheet, row) ]

\* create_task: the response and the spreadsheet afterwards.
create_task(data, td, random_num, exists, rows) ==
    LET unchanged(code, field) ==
            [ code |-> code, field |-> field, taskId |-> EmptyStr, calls |-> 0,
              exists |-> exists, sheet |-> rows ]
        chk == validate_required(data, 1)
        col == data_get(data, "colleague", Str(NONE))
    IN  IF chk.k = "raise" THEN unchanged(500, "")
        ELSE IF chk.k = "missing" THEN unchanged(400, chk.field)
        ELSE IF col.k = "null" THEN unchanged(500, "")
        ELSE LET client_id   == strip(data["clientId"].v)
                 worker_name == strip(data["workerName"].v)
                 colleague   == IF strip(col.v) # EmptyStr THEN strip(col.v) ELSE NONE
                 task_id     == generate_task_id(client_id, worker_name, td, random_num)
                 row         == create_row(data, td, colleague, task_id)
                 ens         == ensure_sheet2_with_header(exists, rows)
             IN  [ code |-> 200, field |-> "", taskId |-> task_id, calls |-> ens.calls + 1,
                   exists |-> ens.exists, sheet |-> values_append(ens.sheet, row) ]

(***************************************************************************)
(* PUT /api/tasks/update                                                   *)
(***************************************************************************)
\* The lookup loop of update_task: the 1-indexed sheet row of the first row
\* whose ID cell, stripped, equals task_id; 0 when there is none.  The loop
\* starts at rows[0], the header row.
find_target(rows, task_id) ==
    LET hits == { i \in 1..Len(rows) : strip(safe_get(rows[i], COL["ID"])) = task_id }
    IN  IF hits = {} THEN 0 ELSE CHOOSE i \in hits : \A j \in hits : i <= j

\* list(row) + [""] * (NUM_COLS - len(row))
pad_row(row) == row \o [j \in 1..(NUM_COLS - Len(row)) |-> EmptyStr]

\* data.get(key) is truthy
truthy(data, key) == data[key].k = "str" /\ data[key].v # EmptyStr

\* The closure fields of update_task (new status Completed or Cancelled).
close_row(row, td) ==
    LET assigned_date == parse_date(safe_get(row, COL["Date"]))
        tat_date      == parse_date(safe_get(row, COL["TAT"]))
        r1 == IF assigned_date # <<>>
              THEN [row EXCEPT ![COL["Total Days taken"] + 1] =
                        int_to_str(days_between(td, assigned_date[1]))]
              ELSE row
    IN  IF tat_date # <<>>
        THEN [r1 EXCEPT ![COL["Task Delivery Status"] + 1] =
                  get_delivery_status(tat_date[1], td)]
        ELSE r1

\* A variant of update_row that also stamps the assignment date.
update_row_restamps(data, td, row_read, new_status) ==
    LET r0 == pad_row(row_read)
        r1 == [r0 EXCEPT ![COL["Date"] + 1] = strftime_iso(td),
                         ![COL["Status"] + 1] = new_status,
                         ![COL["ChnageOnStatus"] + 1] = strftime_iso(td)]
        r2 == IF truthy(data, "newWorker")
              THEN [r1 EXCEPT ![COL["Employee Name"] + 1] = strip(data["newWorker"].v)]
              ELSE r1
        r3 == IF truthy(data, "newColleague")
              THEN [r2 EXCEPT ![COL["Collegaue"] + 1] = strip(data["newColleague"].v)]
              ELSE r2
        r4 == IF new_status \in {Completed, Cancelled} THEN close_row(r3, td) ELSE r3
    IN  prefix(r4, NUM_COLS)

\* A variant of update_row that computes the closure fields for every status.
update_row_recloses(data, td, row_read, new_status) ==
    LET r0 == pad_row(row_read)
        r1 == [r0 EXCEPT ![COL["Status"] + 1] = new_status,
                         ![COL["ChnageOnStatus"] + 1] = strftime_iso(td)]
        r2 == IF truthy(data, "newWorker")
              THEN [r1 EXCEPT ![COL["Employee Name"] + 1] = strip(data["newWorker"].v)]
              ELSE r1
        r3 == IF truthy(data, "newColleague")
              THEN [r2 EXCEPT ![COL["Collegaue"] + 1] = strip(data["newColleague"].v)]
              ELSE r2
    IN  prefix(close_row(r3, td), NUM_COLS)

\* The row update_task writes back for the row it read.
update_row(data, td, row_read, new_status) ==
    LET r0 == pad_row(row_read)
        r1 == [r0 EXCEPT ![COL["Status"] + 1] = new_status,
                         ![COL["ChnageOnStatus"] + 1] = strftime_iso(td)]
        r2 == IF truthy(data, "newWorker")
              THEN [r1 EXCEPT ![COL["Employee Name"] + 1] = strip(data["newWorker"].v)]
              ELSE r1
        r3 == IF truthy(data, "newColleague")
              THEN [r2 EXCEPT ![COL["Collegaue"] + 1] = strip(data["newColleague"].v)]
              ELSE r2
        r4 == IF new_status \in {Completed, Cancelled} THEN close_row(r3, td) ELSE r3
    IN  prefix(r4, NUM_COLS)

\* update_task up to the write: either the response of an early return
\* (k = "reject") or the row to write and its sheet row (k = "write").
update_lookup(data, td, exists, rows) ==
    LET tid == data_get(data, "taskId", Str(EmptyStr))
        nst == data_get(data, "newStatus", Str(EmptyStr))
        reject(code, field, calls, ex, sh) ==
            [ k |-> "reject", code |-> code, field |-> field, calls |-> calls,
              exists |-> ex, sheet |-> sh, task_id |-> EmptyStr, idx |-> 0,
              row |-> <<>> ]
    IN  IF tid.k = "null" \/ nst.k = "null" THEN reject(500, "", 0, exists, rows)
        ELSE IF strip(tid.v) = EmptyStr THEN reject(400, "taskId", 0, exists, rows)
        ELSE IF strip(nst.v) = EmptyStr THEN reject(400, "newStatus", 0, exists, rows)
        ELSE LET ens == ensure_sheet2_with_header(exists, rows)
                 idx == find_target(ens.sheet, strip(tid.v))
             IN  IF idx = 0
                 THEN reject(404, "", ens.calls + 1, ens.exists, ens.sheet)
                 ELSE [ k |-> "write", code |-> 200, field |-> "",
                        calls |-> ens.calls + 1, exists |-> ens.exists,
                        sheet |-> ens.sheet, task_id |-> strip(tid.v), idx |-> idx,
                        row |-> update_row(data, td, ens.sheet[idx], strip(nst.v)) ]

(***************************************************************************)
(* GET /api/tasks and GET /api/tasks/active                                *)
(***************************************************************************)
\* The dict both views build for a row at sheet row i.
task_of(row, i) ==
    [ key \in (DOMAIN COL) \cup {"rowIndex"} |->
        IF key = "rowIndex" THEN i ELSE safe_get(row, COL[key]) ]

\* get_tasks: every row after the first, with its sheet row number.
get_tasks(rows) ==
    IF rows = <<>> THEN <<>>
    ELSE [ n \in 1..(Len(rows) - 1) |-> task_of(rows[n + 1], n + 1) ]

\* get_active_tasks: as get_tasks, skipping the rows whose stripped status
\* is in excluded.
excluded == {Completed, Cancelled}

RECURSIVE active_from(_, _)
active_from(rows, i) ==
    IF i > Len(rows) THEN <<>>
    ELSE IF strip(safe_get(rows[i], COL["Status"])) \in excluded
         THEN active_from(rows, i + 1)
         ELSE << task_of(rows[i], i) >> \o active_from(rows, i + 1)

\* A variant of get_active_tasks that compares the status without regard to
\* case.
get_active_tasks_nocase(rows) ==
    SelectSeq(get_tasks(rows),
              LAMBDA t : upper(strip(t["Status"])) \notin {upper(Completed), upper(Cancelled)})

get_active_tasks(rows) == IF rows = <<>> THEN <<>> ELSE active_from(rows, 2)

(***************************************************************************)
(* Requests the clients send.                                              *)
(***************************************************************************)
StartDate == [y |-> 2024, m |-> 2, d |-> 29]

RandomNums == {RAND_LO, RAND_HI}

W_Client == << "a", "b", " ", "c", "d", "e", "f" >>
W_Worker == << " ", "B", "o", " ", "K", " " >>
W_Type == << "G", "S", "T" >>
W_Desc == << "f", "i", "l", "e" >>
W_TatMDY == << "0", "2", "/", "2", "9", "/", "2", "0", "2", "4" >>
W_TatDMY == << "2", "8", "-", "0", "2", "-", "2", "0", "2", "4" >>
W_TatBad == << "s", "o", "o", "n" >>
W_Cy == << "C", "y" >>
W_Al == << "A", "l" >>
W_Di == << " ", "D", "i" >>
W_Blank == << " " >>
W_Unknown == << "Z", "Z", "_", "1" >>
InProgress == << "I", "n", " ", "P", "r", "o", "g", "r", "e", "s", "s" >>
W_CancelledPadded == << " " >> \o Cancelled \o << " " >>

BaseCreate ==
    [ taskType |-> Str(W_Type), clientId |-> Str(W_Client), tat |-> Str(W_TatMDY),
      taskDescription |-> Str(W_Desc), workerName |-> Str(W_Worker),
      colleague |-> Absent ]

\* Complete requests: three TAT texts (month/day/year, day-month-year,
\* unparsable) and three ways of giving the colleague.
ValidCreates ==
    { BaseCreate,
      [BaseCreate EXCEPT !.tat = Str(W_TatDMY), !.colleague = Str(W_Cy)],
      [BaseCreate EXCEPT !.tat = Str(W_TatBad), !.colleague = Str(W_Blank)] }

\* Requests with one required field missing, blank or null, one with two
\* fields blank, and one whose colleague is null.
InvalidCreates ==
    { [BaseCreate EXCEPT ![f] = v] :
        f \in {"taskType", "clientId", "tat", "taskDescription", "workerName"},
        v \in {Absent, Str(EmptyStr), Str(W_Blank)} }
    \cup { [BaseCreate EXCEPT !.taskType = Null],
           [BaseCreate EXCEPT !.colleague = Null],
           [BaseCreate EXCEPT !.tat = Str(W_Blank), !.workerName = Absent] }

\* The identifiers a client may send: the ID cell of a stored row as the
\* listing shows it (the header row's cell included), and one no row holds.
KnownIds(rows) == { safe_get(rows[i], COL["ID"]) : i \in 1..Len(rows) } \cup {S_ID}

\* A reassignment of the worker, a completion, and a cancellation that also
\* sets the colleague and pads its texts with spaces.
UpdateBodies ==
    { [ newStatus |-> Str(InProgress), newWorker |-> Str(W_Al), newColleague |-> Absent,
        pad |-> <<>> ],
      [ newStatus |-> Str(Completed), newWorker |-> Absent, newColleague |-> Absent,
        pad |-> <<>> ],
      [ newStatus |-> Str(W_CancelledPadded), newWorker |-> Null,
        newColleague |-> Str(W_Di), pad |-> << " " >> ] }

UpdatesOf(ids) ==
    { [ taskId |-> Str(b.pad \o t \o b.pad), newStatus |-> b.newStatus,
        newWorker |-> b.newWorker, newColleague |-> b.newColleague ] :
      t \in ids, b \in UpdateBodies }

UpdateRequests(rows) == UpdatesOf(KnownIds(rows))

UnknownUpdates == UpdatesOf({W_Unknown})

InvalidUpdates ==
    [ taskId : {Absent, Str(W_Blank), Null, Str(W_Unknown)},
      newStatus : {Absent, Str(W_Blank), Null, Str(InProgress)},
      newWorker : {Absent},
      newColleague : {Absent} ]

(***************************************************************************)
(* State.                                                                  *)
(***************************************************************************)
VARIABLES
    sheet2_exists,  \* the spreadsheet has a tab named Sheet2
    sheet,          \* the rows of Sheet2
    today,          \* datetime.date.today()
    pending,        \* update_task requests between their read and their write
    nreq,           \* requests admitted so far
    resp,           \* the request that returned last and its response
    lost            \* a write has replaced a worker or colleague it did not set

vars == << sheet2_exists, sheet, today, pending, nreq, resp, lost >>

NoRequest == [ taskId |-> Absent ]

NoResponse ==
    [ op |-> "none", req |-> NoRequest, code |-> 0, field |-> "", taskId |-> EmptyStr,
      calls |-> 0, tasks |-> <<>> ]

\* A row a create_task request of an earlier run left in the sheet.
SeedRow ==
    create_row(BaseCreate, StartDate, NONE,
               generate_task_id(strip(W_Client), strip(W_Worker), StartDate, RAND_LO))

\* The service starts on a spreadsheet without the tab, with an empty tab,
\* or with the header and one task.
Init ==
    /\ \/ sheet2_exists = FALSE /\ sheet = <<>>
       \/ sheet2_exists = TRUE /\ sheet \in { <<>>, << header, SeedRow >> }
    /\ today = StartDate
    /\ pending = {}
    /\ nreq = 0
    /\ resp = NoResponse
    /\ lost = FALSE

\* The response of create_task to data.
create_response(data, res) ==
    [ op |-> "create", req |-> data, code |-> res.code, field |-> res.field,
      taskId |-> res.taskId, calls |-> res.calls, tasks |-> <<>> ]

\* The response of update_task to data when it returns early.
reject_response(data, res) ==
    [ op |-> "update", req |-> data, code |-> res.code, field |-> res.field,
      taskId |-> EmptyStr, calls |-> res.calls, tasks |-> <<>> ]

\* create_task on a complete request, from the request to the response.
CreateTask ==
    /\ nreq < MaxRequests
    /\ \E data \in ValidCreates, random_num \in RandomNums :
        LET res == create_task(data, today, random_num, sheet2_exists, sheet)
        IN  /\ sheet2_exists' = res.exists
            /\ sheet' = res.sheet
            /\ resp' = create_response(data, res)
    /\ nreq' = nreq + 1
    /\ UNCHANGED << today, pending, lost >>

\* create_task on a request it rejects (400 or 500).
CreateTaskInvalid ==
    /\ \E data \in InvalidCreates, random_num \in RandomNums :
        LET res == create_task(data, today, random_num, sheet2_exists, sheet)
        IN  /\ sheet2_exists' = res.exists
            /\ sheet' = res.sheet
            /\ resp' = create_response(data, res)
    /\ UNCHANGED << today, pending, nreq, lost >>

\* update_task on an identifier no row holds (404).
UpdateTaskNotFound ==
    /\ \E data \in UnknownUpdates :
        LET res == update_lookup(data, today, sheet2_exists, sheet)
        IN  /\ res.k = "reject"
            /\ sheet2_exists' = res.exists
            /\ sheet' = res.sheet
            /\ resp' = reject_response(data, res)
    /\ UNCHANGED << today, pending, nreq, lost >>

\* update_task on a request it rejects before the lookup (400 or 500).
UpdateTaskInvalid ==
    /\ \E data \in InvalidUpdates :
        LET res == update_lookup(data, today, sheet2_exists, sheet)
        IN  /\ res.k = "reject"
            /\ sheet2_exists' = res.exists
            /\ sheet' = res.sheet
            /\ resp' = reject_response(data, res)
    /\ UNCHANGED << today, pending, nreq, lost >>

\* update_task up to the row it has built: ensure_sheet2_with_header, the
\* read of Sheet2!A:M, the lookup and the new row.
UpdateTaskRead ==
    /\ nreq < MaxRequests
    /\ \E data \in UpdateRequests(sheet) :
        LET res == update_lookup(data, today, sheet2_exists, sheet)
        IN  /\ res.k = "write"
            /\ sheet2_exists' = res.exists
            /\ sheet' = res.sheet
            /\ pending' = pending \cup
                   { [ n |-> nreq + 1, data |-> data, task_id |-> res.task_id, idx |-> res.idx,
                       read |-> res.sheet[res.idx], row |-> res.row,
                       calls |-> res.calls, today |-> today ] }
            /\ nreq' = nreq + 1
            /\ UNCHANGED << today, resp, lost >>

\* update_task from the write of the row to the response.
UpdateTaskWrite ==
    \E p \in pending :
        /\ sheet' = values_update(sheet, p.idx, p.row)
        /\ pending' = pending \ {p}
        /\ resp' = [ op |-> "update", req |-> p.data, code |-> 200, field |-> "",
                     taskId |-> p.task_id, calls |-> p.calls + 1, tasks |-> <<>> ]
        /\ lost' = ( \/ lost
                     \/ /\ ~truthy(p.data, "newWorker")
                        /\ p.row[COL["Employee Name"] + 1]
                               # safe_get(sheet[p.idx], COL["Employee Name"])
                     \/ /\ ~truthy(p.data, "newColleague")
                        /\ p.row[COL["Collegaue"] + 1]
                               # safe_get(sheet[p.idx], COL["Collegaue"]) )
        /\ UNCHANGED << sheet2_exists, today, nreq >>

\* Midnight passes.
Tick ==
    /\ days_between(today, StartDate) < MaxTicks
    /\ today' = next_day(today)
    /\ UNCHANGED << sheet2_exists, sheet, pending, nreq, resp, lost >>

\* The requests that change task rows, interleaved, over several days.
Next == CreateTask \/ UpdateTaskRead \/ UpdateTaskWrite \/ Tick

Spec == Init /\ [][Next]_vars

\* Requests of every shape, none of them an update that writes.
NextValidation ==
    CreateTask \/ CreateTaskInvalid \/ UpdateTaskInvalid \/ UpdateTaskNotFound

SpecValidation == Init /\ [][NextValidation]_vars

(***************************************************************************)
(* The two listings, over a sheet that people also edit by hand.           *)
(***************************************************************************)
completed_lc == << "c", "o", "m", "p", "l", "e", "t", "e", "d" >>

\* SeedRow with another status, cut to its first n cells.
ViewRow(status, n) == prefix([SeedRow EXCEPT ![COL["Status"] + 1] = status], n)

\* Rows as values.get returns them: no empty cell at the end of a row.
ViewRows ==
    { ViewRow(st, NUM_COLS) :
        st \in {Pending, Completed, Cancelled, completed_lc, W_CancelledPadded, EmptyStr} }
    \cup { ViewRow(st, COL["Status"] + 1) :
             st \in {Pending, Completed, Cancelled, completed_lc, W_CancelledPadded} }
    \cup { ViewRow(Pending, COL["Status"]) }

RECURSIVE SeqsUpTo(_, _)
SeqsUpTo(S, n) ==
    IF n = 0 THEN { <<>> }
    ELSE LET shorter == SeqsUpTo(S, n - 1)
         IN  shorter \cup { Append(q, x) : q \in shorter, x \in S }

\* An empty sheet, or a first row (the header, or a blank row) and data rows.
StoreContents ==
    { <<>> } \cup { << first >> \o rows : first \in {header, <<>>},
                                        rows \in SeqsUpTo(ViewRows, MaxViewRows) }

InitViews ==
    /\ sheet2_exists = TRUE
    /\ sheet \in StoreContents
    /\ today = StartDate
    /\ pending = {}
    /\ nreq = 0
    /\ resp = NoResponse
    /\ lost = FALSE

\* GET /api/tasks
GetTasks ==
    LET ens == ensure_sheet2_with_header(sheet2_exists, sheet)
    IN  /\ sheet2_exists' = ens.exists
        /\ sheet' = ens.sheet
        /\ resp' = [ op |-> "tasks", req |-> NoRequest, code |-> 200, field |-> "",
                     taskId |-> EmptyStr, calls |-> ens.calls + 1,
                     tasks |-> get_tasks(ens.sheet) ]
        /\ UNCHANGED << today, pending, nreq, lost >>

\* GET /api/tasks/active
GetActiveTasks ==
    LET ens == ensure_sheet2_with_header(sheet2_exists, sheet)
    IN  /\ sheet2_exists' = ens.exists
        /\ sheet' = ens.sheet
        /\ resp' = [ op |-> "active", req |-> NoRequest, code |-> 200, field |-> "",
                     taskId |-> EmptyStr, calls |-> ens.calls + 1,
                     tasks |-> get_active_tasks(ens.sheet) ]
        /\ UNCHANGED << today, pending, nreq, lost >>

NextViews == GetTasks \/ GetActiveTasks

SpecViews == InitViews /\ [][NextViews]_vars
(***************************************************************************)
(* Properties.                                                             *)
(***************************************************************************)
cell(row, name) == safe_get(row, COL[name])

TaskRowNumbers == 2..Len(sheet)

Closing == {Completed, Cancelled}

\* The columns update_task is to leave alone.
FrozenColumns ==
    {"Date", "Tastype", "Business ID", "TAT", "Task Describtion", "Total DaysRequired", "ID"}

\* A JSON member that is missing or blank.
MissingOrBlank(v) ==
    v.k = "absent" \/ (v.k = "str" /\ \A i \in 1..Len(v.v) : v.v[i] \in Whitespace)

HasText(v) == v.k = "str" /\ ~MissingOrBlank(v)

\* This step is the write of the pending update p.
Writes(p) == p \in pending /\ pending' = pending \ {p}

\* This step is a create_task request that was admitted.
Creates == nreq' = nreq + 1 /\ pending' = pending

\* C1: no two task rows of Sheet2 hold the same identifier.
C1_IdentifiersUnique ==
    \A i, j \in TaskRowNumbers :
        i # j => cell(sheet[i], "ID") # cell(sheet[j], "ID")

\* C2: a request that fails validation is answered 400 without a call to the
\* spreadsheet service and leaves the spreadsheet as it was: create_task with
\* exactly one required field missing or blank (the others text) names that
\* field; update_task with taskId or newStatus missing or blank (neither
\* null) is answered 400.
C2_InvalidCreate(r) ==
    /\ r.op = "create"
    /\ \E f \in DOMAIN r.req \ {"colleague"} :
          /\ MissingOrBlank(r.req[f])
          /\ \A g \in DOMAIN r.req \ {"colleague", f} : HasText(r.req[g])

C2_InvalidUpdate(r) ==
    /\ r.op = "update"
    /\ r.req.taskId.k # "null" /\ r.req.newStatus.k # "null"
    /\ MissingOrBlank(r.req.taskId) \/ MissingOrBlank(r.req.newStatus)

C2_ValidationMakesNoCall ==
    [][ /\ C2_InvalidCreate(resp') =>
              /\ resp'.code = 400
              /\ MissingOrBlank(resp'.req[resp'.field])
              /\ resp'.calls = 0
              /\ UNCHANGED << sheet, sheet2_exists >>
        /\ C2_InvalidUpdate(resp') =>
              /\ resp'.code = 400
              /\ resp'.field = (IF MissingOrBlank(resp'.req.taskId)
                                THEN "taskId" ELSE "newStatus")
              /\ resp'.calls = 0
              /\ UNCHANGED << sheet, sheet2_exists >> ]_vars

C2_Witness ==
    /\ resp.op = "create" /\ resp.code = 400 /\ resp.field = "tat"
    /\ resp.req.tat = Str(W_Blank)
    /\ Len(sheet) >= 3

\* C3: the row written by an update of an existing task to Completed or
\* Cancelled, when the stored assignment date and TAT parse, has days-taken =
\* (today - assignment date) and delivery-status On Time for daysLate <= 0,
\* Late Submission for daysLate = 1 and Late Delivery for daysLate > 1, where
\* daysLate = (today - TAT) and today is the day the request computed.
C3_ClosureFields ==
    [][ \A p \in pending :
          ( /\ Writes(p)
            /\ p.idx \in TaskRowNumbers
            /\ cell(p.row, "Status") \in Closing
            /\ parse_date(cell(sheet[p.idx], "Date")) # <<>>
            /\ parse_date(cell(sheet[p.idx], "TAT")) # <<>> )
          => LET assigned == parse_date(cell(sheet[p.idx], "Date"))[1]
                 tat      == parse_date(cell(sheet[p.idx], "TAT"))[1]
                 daysLate == toordinal(p.today) - toordinal(tat)
                 written  == sheet'[p.idx]
             IN  /\ cell(written, "Total Days taken")
                       = int_to_str(toordinal(p.today) - toordinal(assigned))
                 /\ daysLate <= 0 => cell(written, "Task Delivery Status") = OnTime
                 /\ daysLate = 1 => cell(written, "Task Delivery Status") = LateSubmission
                 /\ daysLate > 1 => cell(written, "Task Delivery Status") = LateDelivery
      ]_vars

C3_Witness ==
    \E i \in TaskRowNumbers :
        /\ cell(sheet[i], "Status") = Completed
        /\ cell(sheet[i], "Total Days taken") = << "1" >>
        /\ cell(sheet[i], "Task Delivery Status") = LateDelivery

\* C4: the write of an update leaves every other row as it was and, in the
\* row it writes, the assignment date, task type, client identifier, TAT,
\* description, days-required and identifier.
C4_UpdateFrame ==
    [][ \A p \in pending :
          Writes(p) =>
              /\ Len(sheet') = Len(sheet)
              /\ \A i \in 1..Len(sheet) :
                    IF i = p.idx
                    THEN \A c \in FrozenColumns : cell(sheet'[i], c) = cell(sheet[i], c)
                    ELSE sheet'[i] = sheet[i]
      ]_vars

C4_Witness ==
    /\ resp.op = "update" /\ resp.code = 200
    /\ Len(sheet) >= 3
    /\ \E i \in TaskRowNumbers :
          /\ cell(sheet[i], "ID") = resp.taskId
          /\ cell(sheet[i], "Status") = InProgress
          /\ cell(sheet[i], "Employee Name") = W_Al
          /\ cell(sheet[i], "ChnageOnStatus") # cell(sheet[i], "Date")

\* C5: update_task reports success only for the identifier of a task row.
C5_SuccessOnlyForTasks ==
    (resp.op = "update" /\ resp.code = 200)
        => \E i \in TaskRowNumbers : cell(sheet[i], "ID") = resp.taskId

C7_CreateAppends ==
    [][ Creates =>
          LET before == IF sheet = <<>> THEN << header >> ELSE sheet
              new    == sheet'[Len(sheet')]
          IN  /\ resp'.op = "create" /\ resp'.code = 200
              /\ sheet' = Append(before, new)
              /\ Len(new) = NUM_COLS
              /\ cell(new, "Status") = Pending
              /\ cell(new, "ChnageOnStatus") = EmptyStr
              /\ cell(new, "Total Days taken") = EmptyStr
              /\ cell(new, "Task Delivery Status") = EmptyStr
              /\ MissingOrBlank(resp'.req.colleague) => cell(new, "Collegaue") = NONE
              /\ cell(new, "ID") = resp'.taskId
      ]_vars

C7_Witness ==
    /\ resp.op = "create" /\ resp.code = 200
    /\ resp.req.colleague = Str(W_Blank)
    /\ Len(sheet) >= 3
    /\ cell(sheet[Len(sheet)], "Collegaue") = NONE
    /\ cell(sheet[Len(sheet)], "ID") = resp.taskId
    /\ cell(sheet[2], "Status") # Pending

\* C8: days-required never changes, and the write of an update whose new
\* status is neither Completed nor Cancelled leaves days-taken and
\* delivery-status of its row as they were.
C8_DerivedFieldsKept ==
    [][ /\ \A i \in 1..Len(sheet) :
              cell(sheet'[i], "Total DaysRequired") = cell(sheet[i], "Total DaysRequired")
        /\ \A p \in pending :
              (Writes(p) /\ cell(p.row, "Status") \notin Closing) =>
                  /\ cell(sheet'[p.idx], "Total Days taken")
                        = cell(sheet[p.idx], "Total Days taken")
                  /\ cell(sheet'[p.idx], "Task Delivery Status")
                        = cell(sheet[p.idx], "Task Delivery Status")
      ]_vars

\* C8 as amended: days-required never changes, and the write of an update
\* whose new status is neither Completed nor Cancelled stores the days-taken
\* and delivery-status the request read; they are as they were when no other
\* write changed the row between the request's read and its write.
C8_DerivedFieldsKeptSinceRead ==
    [][ /\ \A i \in 1..Len(sheet) :
              cell(sheet'[i], "Total DaysRequired") = cell(sheet[i], "Total DaysRequired")
        /\ \A p \in pending :
              (Writes(p) /\ cell(p.row, "Status") \notin Closing) =>
                  /\ cell(sheet'[p.idx], "Total Days taken") = cell(p.read, "Total Days taken")
                  /\ cell(sheet'[p.idx], "Task Delivery Status")
                        = cell(p.read, "Task Delivery Status")
                  /\ sheet[p.idx] = p.read =>
                        /\ cell(sheet'[p.idx], "Total Days taken")
                              = cell(sheet[p.idx], "Total Days taken")
                        /\ cell(sheet'[p.idx], "Task Delivery Status")
                              = cell(sheet[p.idx], "Task Delivery Status")
      ]_vars

C8_Witness ==
    /\ pending = {} /\ ~lost
    /\ resp.op = "update" /\ resp.code = 200
    /\ \E i \in TaskRowNumbers :
          /\ cell(sheet[i], "ID") = resp.taskId
          /\ cell(sheet[i], "Status") = InProgress
          /\ cell(sheet[i], "Total Days taken") # EmptyStr
          /\ cell(sheet[i], "Task Delivery Status") # EmptyStr

\* C9: update_task writes the row it built from its own read at the row
\* number it found, whatever the sheet holds by then, and answers 200; a
\* worker or colleague is replaced by a request that did not set it only
\* when the row changed between that request's read and its write.
C9_WriteIsBlind ==
    [][ \A p \in pending :
          Writes(p) =>
              /\ sheet'[p.idx] = p.row
              /\ resp'.code = 200
              /\ (lost' /\ ~lost) => sheet[p.idx] # p.read
      ]_vars

\* Two updates of one task have both returned; the row is completed, as one
\* of them asked, and its worker is not the one the other set.
C9_Witness ==
    /\ lost /\ pending = {} /\ nreq = 2
    /\ resp.op = "update" /\ resp.code = 200
    /\ Len(sheet) = 2
    /\ cell(sheet[2], "Status") = Completed
    /\ cell(sheet[2], "Employee Name") # W_Al
    /\ cell(sheet[2], "ChnageOnStatus") # EmptyStr

\* C10: once written, row 1 of Sheet2 holds the 13 header labels.
C10_HeaderKept == sheet # <<>> => sheet[1] = header
====
